---------------------------- MODULE Spec2Model ----------------------------
(***************************************************************************)
(* Model of meshing.py: the three gmsh shape builders                      *)
(* create_rectangle_mesh, create_rectangle_frac_mesh and create_cube_mesh. *)
(*                                                                         *)
(* Lengths are integers in units of 1/2000, so that v/2 and                *)
(* v*tan(30deg)/2 (tan(30deg) taken as 577/1000) are exact.                *)
(* Entity tags are the positions of the entities in creation order, as     *)
(* the engine numbers them in a fresh model (first point is 1, ...).       *)
(***************************************************************************)
EXTENDS Integers, Sequences, FiniteSets, TLC

VARIABLES
    gmsh_init,  \* the process-wide engine is initialized
    pc,         \* position of the running call: "idle", "tagged", "meshed"
    fn,         \* the builder that is running, "none" when idle
    args,       \* the arguments of the running call
    points,     \* addPoint results, in creation order
    lines,      \* addLine results: <<from point, to point>>
    loops,      \* addCurveLoop results: sequences of signed line tags
    surfs,      \* addPlaneSurface results: sequences of curve loop tags
    vols,       \* addVolume results: the surface tags of the surface loop
    groups,     \* physical groups: [dim, name, ents]
    files,      \* mesh files written so far
    raised      \* the exception the last finished call left with

vars == <<gmsh_init, pc, fn, args, points, lines, loops, surfs, vols, groups,
          files, raised>>

\* ------------------------------------------------------------- bounds
MaxDim == 2
MaxSize == 1
MaxZ == 1

Dims == -1 .. MaxDim
Sizes == 0 .. MaxSize
Centers == {-MaxZ, 0, MaxZ}
Modes == {"domain", "BC", "other"}
Paths == {[stem |-> "a", suffix |-> ".geo"], [stem |-> "b", suffix |-> ""]}

NoArgs == [filepath |-> [stem |-> "", suffix |-> ""], width |-> 0, height |-> 0,
           thickness |-> 0, mesh_size |-> 0, center_z |-> 0, mode |-> ""]

\* ------------------------------------------------------------- arithmetic
Full(v) == 2000 * v
Half(v) == 1000 * v
TanHalf(v) == 577 * v

Abs(n) == IF n < 0 THEN -n ELSE n
Sgn(n) == IF n < 0 THEN -1 ELSE IF n > 0 THEN 1 ELSE 0

Pt(x, y, z, size) == [x |-> x, y |-> y, z |-> z, size |-> size]
Group(dim, name, ents) == [dim |-> dim, name |-> name, ents |-> ents]

WithSuffix(p, suffix) == [stem |-> p.stem, suffix |-> suffix]

\* ------------------------------------------------------------- rectangle
RectanglePoints(w, h, s, z) ==
    << Pt(0,       Full(z) + Half(h), 0, s),
       Pt(Full(w), Full(z) + Half(h), 0, s),
       Pt(Full(w), Full(z) - Half(h), 0, s),
       Pt(0,       Full(z) - Half(h), 0, s) >>

RectangleLines == << <<1, 2>>, <<2, 3>>, <<3, 4>>, <<4, 1>> >>

RectangleLoops == << <<1, 2, 3, 4>> >>

RectangleSurfs == << <<1>> >>

RectangleBcs_swapped == {<<"top", 3>>, <<"right", 2>>, <<"bottom", 1>>, <<"left", 4>>}

RectangleBcs == {<<"top", 1>>, <<"right", 2>>, <<"bottom", 3>>, <<"left", 4>>}

RectangleGroups ==
    {Group(2, "domain", {1})} \cup {Group(1, b[1], {b[2]}) : b \in RectangleBcs}

\* ------------------------------------------------------------- fractured rectangle
FracPoints(w, h, s, z) ==
    << Pt(0,       Full(z) + Half(h),    0, s),
       Pt(Full(w), Full(z) + Half(h),    0, s),
       Pt(Full(w), Full(z) - Half(h),    0, s),
       Pt(0,       Full(z) - Half(h),    0, s),
       Pt(0,       Full(z) - TanHalf(w), 0, s),
       Pt(Full(w), Full(z) + TanHalf(w), 0, s) >>

FracLines ==
    << <<2, 1>>, <<1, 5>>, <<5, 4>>, <<4, 3>>, <<3, 6>>, <<6, 2>>, <<6, 5>> >>

FracLoops_samesign == << <<1, 2, 7, 6>>, <<4, 5, 7, 3>> >>

FracLoops == << <<1, 2, -7, 6>>, <<4, 5, 7, 3>> >>

FracSurfs == << <<1>>, <<2>> >>

FracGroups_leaky(mode) ==
    IF mode = "BC"
    THEN {Group(1, "top", {1}), Group(1, "bottom", {4}),
          Group(1, "right", {5, 6}), Group(1, "left", {2, 3}),
          Group(0, "p4", {4}), Group(1, "fracture", {7})}
    ELSE IF mode = "domain"
    THEN {Group(2, "top_surf", {1}), Group(2, "bot_surf", {2}),
          Group(1, "fracture", {7})}
    ELSE {}

FracGroups(mode) ==
    IF mode = "BC"
    THEN {Group(1, "top", {1}), Group(1, "bottom", {4}),
          Group(1, "right", {5, 6}), Group(1, "left", {2, 3}),
          Group(0, "p4", {4})}
    ELSE IF mode = "domain"
    THEN {Group(2, "top_surf", {1}), Group(2, "bot_surf", {2}),
          Group(1, "fracture", {7})}
    ELSE {}

\* the whole model create_rectangle_frac_mesh hands to the engine
FracModel(w, h, s, z, mode) ==
    [points |-> FracPoints(w, h, s, z), lines |-> FracLines, loops |-> FracLoops,
     surfs |-> FracSurfs, groups |-> FracGroups(mode)]

\* ------------------------------------------------------------- cube
CubePoints(w, h, t, s, z) ==
    LET z0 == Full(z) - Half(t)
        z1 == Full(z) + Half(t)
    IN  << Pt(0,       0,       z0, s),
           Pt(Full(w), 0,       z0, s),
           Pt(Full(w), Full(h), z0, s),
           Pt(0,       Full(h), z0, s),
           Pt(0,       0,       z1, s),
           Pt(Full(w), 0,       z1, s),
           Pt(Full(w), Full(h), z1, s),
           Pt(0,       Full(h), z1, s) >>

CubeLines ==
    << <<1, 2>>, <<2, 3>>, <<3, 4>>, <<4, 1>>,
       <<5, 6>>, <<6, 7>>, <<7, 8>>, <<8, 5>>,
       <<1, 5>>, <<2, 6>>, <<3, 7>>, <<4, 8>> >>

CubeLoops_open ==
    << << 1,   2,   3,   4>>,
       << 5,   6,   7,   8>>,
       << 1,  10,  -5,  -9>>,
       <<-3,  11,   7, -12>>,
       << 9,  -8,  12,   4>>,
       <<10,   6, -11,  -2>> >>

CubeLoops ==
    << << 1,   2,   3,   4>>,
       << 5,   6,   7,   8>>,
       << 1,  10,  -5,  -9>>,
       <<-3,  11,   7, -12>>,
       << 9,  -8, -12,   4>>,
       <<10,   6, -11,  -2>> >>

CubeSurfs == << <<1>>, <<2>>, <<3>>, <<4>>, <<5>>, <<6>> >>

CubeVols == << {1, 2, 3, 4, 5, 6} >>

CubeFaceMap ==
    {<<"bottom", 1>>, <<"top", 2>>, <<"front", 3>>, <<"back", 4>>,
     <<"left", 5>>, <<"right", 6>>}

CubeGroups ==
    {Group(0, "points", 1 .. 8), Group(1, "edges", 1 .. 12), Group(3, "volume", {1})}
        \cup {Group(2, f[1], {f[2]}) : f \in CubeFaceMap}

\* ------------------------------------------------------------- the calls
Init ==
    /\ gmsh_init = FALSE
    /\ pc = "idle"
    /\ fn = "none"
    /\ args = NoArgs
    /\ points = <<>>
    /\ lines = <<>>
    /\ loops = <<>>
    /\ surfs = <<>>
    /\ vols = <<>>
    /\ groups = {}
    /\ files = {}
    /\ raised = "none"

\* lines 13-42: initialize, build the geometry, tag it; next is mesh.generate
create_rectangle_mesh(filepath, width, height, mesh_size, center_z) ==
    /\ pc = "idle"
    /\ gmsh_init' = TRUE
    /\ pc' = "tagged"
    /\ fn' = "rectangle"
    /\ args' = [NoArgs EXCEPT !.filepath = filepath, !.width = width,
                              !.height = height, !.mesh_size = mesh_size,
                              !.center_z = center_z]
    /\ points' = RectanglePoints(width, height, mesh_size, center_z)
    /\ lines' = RectangleLines
    /\ loops' = RectangleLoops
    /\ surfs' = RectangleSurfs
    /\ vols' = <<>>
    /\ groups' = RectangleGroups
    /\ raised' = "none"
    /\ UNCHANGED files

\* lines 57-112
create_rectangle_frac_mesh(filepath, width, height, mesh_size, center_z, mode) ==
    LET m == FracModel(width, height, mesh_size, center_z, mode)
    IN  /\ pc = "idle"
        /\ gmsh_init' = TRUE
        /\ pc' = "tagged"
        /\ fn' = "frac"
        /\ args' = [NoArgs EXCEPT !.filepath = filepath, !.width = width,
                                  !.height = height, !.mesh_size = mesh_size,
                                  !.center_z = center_z, !.mode = mode]
        /\ points' = m.points
        /\ lines' = m.lines
        /\ loops' = m.loops
        /\ surfs' = m.surfs
        /\ vols' = <<>>
        /\ groups' = m.groups
        /\ raised' = "none"
        /\ UNCHANGED files

\* lines 127-204
create_cube_mesh(filepath, width, height, thickness, mesh_size, center_z) ==
    /\ pc = "idle"
    /\ gmsh_init' = TRUE
    /\ pc' = "tagged"
    /\ fn' = "cube"
    /\ args' = [NoArgs EXCEPT !.filepath = filepath, !.width = width,
                              !.height = height, !.thickness = thickness,
                              !.mesh_size = mesh_size, !.center_z = center_z]
    /\ points' = CubePoints(width, height, thickness, mesh_size, center_z)
    /\ lines' = CubeLines
    /\ loops' = CubeLoops
    /\ surfs' = CubeSurfs
    /\ vols' = CubeVols
    /\ groups' = CubeGroups
    /\ raised' = "none"
    /\ UNCHANGED files

\* the call is left by an exception: its locals are gone, nothing finalizes
\* the engine
Propagate ==
    /\ pc' = "idle"
    /\ fn' = "none"
    /\ args' = NoArgs
    /\ points' = <<>>
    /\ lines' = <<>>
    /\ loops' = <<>>
    /\ surfs' = <<>>
    /\ vols' = <<>>
    /\ groups' = {}
    /\ raised' = "EngineFailure"
    /\ UNCHANGED <<gmsh_init, files>>

\* gmsh.model.mesh.generate returns
generate_ok ==
    /\ pc = "tagged"
    /\ pc' = "meshed"
    /\ UNCHANGED <<gmsh_init, fn, args, points, lines, loops, surfs, vols,
                   groups, files, raised>>

\* gmsh.model.mesh.generate raises
generate_fails ==
    /\ pc = "tagged"
    /\ Propagate

\* gmsh.write returns, then gmsh.finalize and the return
write_ok ==
    /\ pc = "meshed"
    /\ files' = files \cup {WithSuffix(args.filepath, ".msh")}
    /\ gmsh_init' = FALSE
    /\ pc' = "idle"
    /\ fn' = "none"
    /\ args' = NoArgs
    /\ points' = <<>>
    /\ lines' = <<>>
    /\ loops' = <<>>
    /\ surfs' = <<>>
    /\ vols' = <<>>
    /\ groups' = {}
    /\ raised' = "none"

\* gmsh.write raises
write_fails ==
    /\ pc = "meshed"
    /\ Propagate

Next ==
    \/ \E f \in Paths, w \in Dims, h \in Dims, s \in Sizes, z \in Centers :
           create_rectangle_mesh(f, w, h, s, z)
    \/ \E f \in Paths, w \in Dims, h \in Dims, s \in Sizes, z \in Centers,
          m \in Modes :
           create_rectangle_frac_mesh(f, w, h, s, z, m)
    \/ \E f \in Paths, w \in Dims, h \in Dims, t \in Dims, s \in Sizes,
          z \in Centers :
           create_cube_mesh(f, w, h, t, s, z)
    \/ generate_ok
    \/ generate_fails
    \/ write_ok
    \/ write_fails

Spec == Init /\ [][Next]_vars

\* ------------------------------------------------------------- reading the built model
ValidParams ==
    /\ args.width > 0
    /\ args.height > 0
    /\ args.mesh_size > 0
    /\ (fn = "cube" => args.thickness > 0)

Running == fn # "none"

\* a signed line reference traversed in its direction
RefStart(r) == IF r > 0 THEN lines[r][1] ELSE lines[-r][2]
RefEnd(r) == IF r > 0 THEN lines[r][2] ELSE lines[-r][1]

LoopClosed(l) ==
    /\ \A i \in 1 .. Len(l) : Abs(l[i]) \in 1 .. Len(lines)
    /\ \A i \in 1 .. Len(l) : RefEnd(l[i]) = RefStart(l[(i % Len(l)) + 1])

\* the places <<loop, position>> that reference line e
Refs(e) ==
    {r \in UNION {{<<k, i>> : i \in 1 .. Len(loops[k])} : k \in 1 .. Len(loops)} :
        Abs(loops[r[1]][r[2]]) = e}

RefSign(r) == Sgn(loops[r[1]][r[2]])

LoopsOf(e) == {r[1] : r \in Refs(e)}

LinesOfLoop(k) == {Abs(loops[k][i]) : i \in 1 .. Len(loops[k])}

GroupsNamed(name) == {g \in groups : g.name = name}

Names == {g.name : g \in groups}

\* both end points of line e satisfy P
OnTop(p) == p.y = Full(args.center_z) + Half(args.height)
OnBottom(p) == p.y = Full(args.center_z) - Half(args.height)
OnLeft(p) == p.x = 0
OnRight(p) == p.x = Full(args.width)

LinesOnTop == {e \in 1 .. Len(lines) : OnTop(points[lines[e][1]]) /\ OnTop(points[lines[e][2]])}
LinesOnBottom == {e \in 1 .. Len(lines) : OnBottom(points[lines[e][1]]) /\ OnBottom(points[lines[e][2]])}
LinesOnLeft == {e \in 1 .. Len(lines) : OnLeft(points[lines[e][1]]) /\ OnLeft(points[lines[e][2]])}
LinesOnRight == {e \in 1 .. Len(lines) : OnRight(points[lines[e][1]]) /\ OnRight(points[lines[e][2]])}

\* ------------------------------------------------------------- C9
\* C9: in all three builders every edge loop a face is built from is closed:
\* traversing its signed references in list order, the end point of each edge
\* is the start point of the next, cyclically; 1 loop for the rectangle, 2 for
\* the fractured rectangle, 6 for the cube.
C9_LoopsClosed ==
    Running =>
        /\ Len(surfs) = (IF fn = "rectangle" THEN 1 ELSE IF fn = "frac" THEN 2 ELSE 6)
        /\ Len(loops) = Len(surfs)
        /\ \A s \in 1 .. Len(surfs) : \A c \in 1 .. Len(surfs[s]) :
               /\ surfs[s][c] \in 1 .. Len(loops)
               /\ Len(loops[surfs[s][c]]) > 0
               /\ LoopClosed(loops[surfs[s][c]])

C9_Witness ==
    /\ fn = "cube"
    /\ pc = "tagged"
    /\ ValidParams
    /\ Len(surfs) = 6
    /\ \E k \in 1 .. Len(loops) : \E i \in 1 .. Len(loops[k]) : loops[k][i] < 0

\* ------------------------------------------------------------- C1
\* C1: in create_cube_mesh, for valid (w,h,t,s), each of the 12 edges is
\* referenced by exactly 2 of the 6 edge loops, and the two references carry
\* opposite signs.
C1_ClosedShell ==
    (fn = "cube" /\ ValidParams) =>
        /\ Len(lines) = 12
        /\ Len(loops) = 6
        /\ \A e \in 1 .. 12 :
               /\ Cardinality(Refs(e)) = 2
               /\ Cardinality(LoopsOf(e)) = 2
               /\ {RefSign(r) : r \in Refs(e)} = {-1, 1}

\* the part of C1 the code has: every cube edge is in exactly 2 loops
CubeEdgesInTwoLoops ==
    fn = "cube" => \A e \in 1 .. 12 : Cardinality(LoopsOf(e)) = 2

\* ------------------------------------------------------------- C2
LoopVertex(k, i) == points[RefStart(loops[k][i])]

\* normal of loop k by the right-hand rule over its first three corners
NormalOf(k) ==
    LET a == LoopVertex(k, 1)
        b == LoopVertex(k, 2)
        c == LoopVertex(k, 3)
        ux == b.x - a.x
        uy == b.y - a.y
        uz == b.z - a.z
        vx == c.x - b.x
        vy == c.y - b.y
        vz == c.z - b.z
    IN  [x |-> uy * vz - uz * vy, y |-> uz * vx - ux * vz, z |-> ux * vy - uy * vx]

\* from the centre of the box to the centre of face k, times 8
FromCentre(k) ==
    LET sx == points[1].x + points[7].x
        sy == points[1].y + points[7].y
        sz == points[1].z + points[7].z
        a == LoopVertex(k, 1)
        c == LoopVertex(k, 3)
    IN  [x |-> (a.x + c.x) - sx, y |-> (a.y + c.y) - sy, z |-> (a.z + c.z) - sz]

Outward(k) ==
    LET n == NormalOf(k)
        d == FromCentre(k)
    IN  Sgn(n.x) * Sgn(d.x) + Sgn(n.y) * Sgn(d.y) + Sgn(n.z) * Sgn(d.z) > 0

\* C2: in create_cube_mesh, for valid (w,h,t,s), each of the 6 faces has an
\* outward-pointing normal: the normal of its edge loop's traversal order
\* points away from the interior of the box.
C2_OutwardNormals ==
    (fn = "cube" /\ ValidParams) =>
        \A s \in 1 .. Len(surfs) : Outward(surfs[s][1])

\* what the code builds: top, front and left point outward, bottom, back and
\* right point inward
CubeNormalsAsBuilt ==
    (fn = "cube" /\ ValidParams) =>
        /\ \A k \in {2, 3, 5} : Outward(k)
        /\ \A k \in {1, 4, 6} : ~Outward(k)

\* ------------------------------------------------------------- C3
\* C3: a builder called with a non-positive width, height, thickness or mesh
\* size fails with InvalidParameter before any geometry is built: no point,
\* edge, loop, face or tag is created and the call does not get to meshing
\* or writing.
C3_InvalidParameterRejected ==
    (Running /\ ~ValidParams) =>
        /\ points = <<>>
        /\ lines = <<>>
        /\ loops = <<>>
        /\ surfs = <<>>
        /\ groups = {}
        /\ pc # "meshed"

\* ------------------------------------------------------------- C4
\* C4: create_rectangle_frac_mesh with a mode other than "domain" or "BC" is
\* an InvalidParameter failure: the call never gets through mesh generation
\* to writing with an empty tag set.
C4_UnknownModeRejected ==
    (fn = "frac" /\ args.mode \notin {"domain", "BC"}) => pc # "meshed"

\* ------------------------------------------------------------- C5
FractureFits == TanHalf(args.width) <= Half(args.height)

\* C5: in create_rectangle_frac_mesh, for every valid (w,h,s,z0), the two
\* fracture points lie on the left and right vertical edges: x = 0 resp.
\* x = w and y between z0 - h/2 and z0 + h/2.
C5_FractureOnSides ==
    (fn = "frac" /\ ValidParams) =>
        /\ OnLeft(points[5])
        /\ OnRight(points[6])
        /\ \A i \in {5, 6} :
               /\ points[i].y >= Full(args.center_z) - Half(args.height)
               /\ points[i].y <= Full(args.center_z) + Half(args.height)

\* the fracture points are on the sides exactly when w*tan(30deg) <= h
FractureOnSidesWhenFits ==
    (fn = "frac" /\ ValidParams) =>
        (FractureFits <=>
            \A i \in {5, 6} :
               /\ points[i].y >= points[4].y
               /\ points[i].y <= points[1].y)

\* ------------------------------------------------------------- C6
\* the lines both loops reference
SharedLines == {e \in 1 .. Len(lines) : Cardinality(LoopsOf(e)) > 1}

\* C6: create_rectangle_frac_mesh builds seven edges and two edge loops; the
\* fracture edge l7 (between the two fracture points) is the only edge both
\* loops reference, with opposite signs, and each of the six outer edges is
\* referenced by exactly one loop.
C6_FractureShared ==
    fn = "frac" =>
        /\ Len(lines) = 7
        /\ Len(loops) = 2
        /\ {lines[7][1], lines[7][2]} = {5, 6}
        /\ SharedLines = {7}
        /\ Cardinality(Refs(7)) = 2
        /\ {RefSign(r) : r \in Refs(7)} = {-1, 1}
        /\ \A e \in 1 .. 6 :
               /\ Cardinality(Refs(e)) = 1
               /\ Cardinality(LoopsOf(e)) = 1

C6_Witness ==
    /\ fn = "frac"
    /\ pc = "tagged"
    /\ ValidParams
    /\ FractureFits
    /\ LoopsOf(7) = {1, 2}

\* ------------------------------------------------------------- C7
PointXY(i) == <<points[i].x, points[i].y>>

\* the group called name is the only one of that name, has dimension 1 and
\* holds exactly the one line in side
SideTag(name, side) ==
    /\ Cardinality(GroupsNamed(name)) = 1
    /\ \A g \in GroupsNamed(name) :
           /\ g.dim = 1
           /\ Cardinality(g.ents) = 1
           /\ g.ents = side

\* C7: for valid (w,h,s) and any z0, create_rectangle_mesh produces exactly
\* 4 points, 4 edges, 1 edge loop, 1 face and exactly the tags domain (dim 2,
\* the face), top, right, bottom, left (dim 1, one edge each), each side name
\* on the edge lying on that side: top on y=z0+h/2, right on x=w, bottom on
\* y=z0-h/2, left on x=0; for w=2, h=1, z0=0 the points are (0,0.5), (2,0.5),
\* (2,-0.5), (0,-0.5) and top is the edge (0,0.5)-(2,0.5).
C7_RectangleShape ==
    (fn = "rectangle" /\ ValidParams) =>
        /\ Len(points) = 4
        /\ Len(lines) = 4
        /\ Len(loops) = 1
        /\ Len(surfs) = 1
        /\ Names = {"domain", "top", "right", "bottom", "left"}
        /\ Cardinality(groups) = 5
        /\ \A g \in GroupsNamed("domain") : g.dim = 2 /\ g.ents = 1 .. Len(surfs)
        /\ SideTag("top", LinesOnTop)
        /\ SideTag("right", LinesOnRight)
        /\ SideTag("bottom", LinesOnBottom)
        /\ SideTag("left", LinesOnLeft)
        /\ (args.width = 2 /\ args.height = 1 /\ args.center_z = 0) =>
               /\ [i \in 1 .. 4 |-> PointXY(i)] =
                      << <<0, Half(1)>>, <<Full(2), Half(1)>>,
                         <<Full(2), -Half(1)>>, <<0, -Half(1)>> >>
               /\ \A g \in GroupsNamed("top") : \A e \in g.ents :
                      /\ PointXY(lines[e][1]) = <<0, Half(1)>>
                      /\ PointXY(lines[e][2]) = <<Full(2), Half(1)>>

C7_Witness ==
    /\ fn = "rectangle"
    /\ pc = "tagged"
    /\ args.width = 2
    /\ args.height = 1
    /\ args.mesh_size = 1
    /\ args.center_z = 0
    /\ Cardinality(groups) = 5

\* ------------------------------------------------------------- C8
\* the corner point p4: bottom left
Corner4 == {i \in 1 .. Len(points) : OnLeft(points[i]) /\ OnBottom(points[i])}

\* the faces whose loop runs along the lines in side and along the fracture
FacesAlong(side) ==
    {s \in 1 .. Len(surfs) :
        /\ side \subseteq LinesOfLoop(surfs[s][1])
        /\ SharedLines \subseteq LinesOfLoop(surfs[s][1])}

\* every corner of face s is on or above (dir = 1), on or below (dir = -1)
\* the fracture point on its side of the rectangle
BesideFracture(s, dir) ==
    \A i \in 1 .. Len(loops[surfs[s][1]]) :
        LET p == LoopVertex(surfs[s][1], i)
            q == IF OnLeft(p) THEN points[5] ELSE points[6]
        IN  dir * (p.y - q.y) >= 0

BcTags ==
    /\ Names = {"top", "bottom", "right", "left", "p4"}
    /\ Cardinality(groups) = 5
    /\ SideTag("top", LinesOnTop)
    /\ SideTag("bottom", LinesOnBottom)
    /\ \A g \in GroupsNamed("right") :
           g.dim = 1 /\ g.ents = LinesOnRight /\ Cardinality(g.ents) = 2
    /\ \A g \in GroupsNamed("left") :
           g.dim = 1 /\ g.ents = LinesOnLeft /\ Cardinality(g.ents) = 2
    /\ \A g \in GroupsNamed("p4") :
           g.dim = 0 /\ g.ents = Corner4 /\ Cardinality(g.ents) = 1
    /\ \A g \in groups : g.dim # 2
    /\ \A g \in groups : g.dim = 1 => g.ents \cap SharedLines = {}

DomainTags ==
    /\ Names = {"top_surf", "bot_surf", "fracture"}
    /\ Cardinality(groups) = 3
    /\ \A g \in GroupsNamed("top_surf") :
           /\ g.dim = 2
           /\ Cardinality(g.ents) = 1
           /\ g.ents = FacesAlong(LinesOnTop)
           /\ FractureFits => \A s \in g.ents : BesideFracture(s, 1)
    /\ \A g \in GroupsNamed("bot_surf") :
           /\ g.dim = 2
           /\ Cardinality(g.ents) = 1
           /\ g.ents = FacesAlong(LinesOnBottom)
           /\ FractureFits => \A s \in g.ents : BesideFracture(s, -1)
    /\ \A g \in GroupsNamed("fracture") :
           g.dim = 1 /\ g.ents = SharedLines /\ Cardinality(g.ents) = 1
    /\ \A g \in groups : g.dim = 1 => g.ents \subseteq SharedLines
    /\ \A g \in groups : g.dim # 0

\* C8: the two tagging modes of create_rectangle_frac_mesh tag the same
\* geometry differently: "BC" gives exactly top (1 edge), bottom (1 edge),
\* right (the 2 edges on x=w), left (the 2 edges on x=0) and p4 (1 corner
\* point), no face tag and no fracture tag; "domain" gives exactly top_surf
\* and bot_surf (1 face each, above resp. below the fracture) and fracture
\* (the 1 shared edge), no outer-boundary tag; the points, edges, loops and
\* faces are those of the call with the other mode.
C8_TaggingModes ==
    (fn = "frac" /\ ValidParams /\ args.mode \in {"BC", "domain"}) =>
        /\ args.mode = "BC" => BcTags
        /\ args.mode = "domain" => DomainTags
        /\ \A m \in {"BC", "domain"} :
               LET o == FracModel(args.width, args.height, args.mesh_size,
                                  args.center_z, m)
               IN  /\ o.points = points
                   /\ o.lines = lines
                   /\ o.loops = loops
                   /\ o.surfs = surfs
                   /\ (m # args.mode => o.groups \cap groups = {})

C8_Witness ==
    /\ fn = "frac"
    /\ pc = "meshed"
    /\ ValidParams
    /\ FractureFits
    /\ args.mode = "BC"
    /\ Cardinality(groups) = 5

\* ------------------------------------------------------------- C10
\* C10: a call whose mesh generation or write fails leaves the engine
\* finalized: no call starts with the process-wide engine still initialized
\* by an earlier call.
C10_EngineFinalizedOnExit == pc = "idle" => ~gmsh_init

\* the part of C10 the code has: a call that leaves with an engine failure
\* has written no file
FailingCallWritesNothing ==
    [][(pc # "idle" /\ raised' = "EngineFailure") => files' = files]_vars

=============================================================================
